---------------------------- MODULE Spec2Model ----------------------------
(***************************************************************************)
(* A model of botfront-external-trainer: the control process               *)
(* (app/job_manager.py, K8sJobManager), the worker script                  *)
(* (app/templates/train.py) and the cluster orchestrator and storage       *)
(* backend they talk to.                                                   *)
(*                                                                         *)
(* Eight specifications share the variables:                                *)
(*   Spec        the whole system: train/status/cancel/result requests,    *)
(*               worker pods, the orchestrator's Job controller;           *)
(*   SpecLogs    status/cancel/logs/result against one job and its pod;    *)
(*   SpecOwner   submissions, Job deletion and garbage collection          *)
(*               (SpecOwnerFair adds fairness);                            *)
(*   SpecShared  several jobs that share Model Directories: train,         *)
(*               their workers, result;                                    *)
(*   SpecStatus  K8sJobManager.status applied to arbitrary Job objects;    *)
(*   SpecUpload  one call of upload_to_s3 (SpecUploadFair adds fairness);  *)
(*   SpecPatch   one call of dict_set on a template document;             *)
(*   SpecHash    the hash train() computes for two documents.              *)
(***************************************************************************)
EXTENDS Integers, Sequences, FiniteSets, TLC

VARIABLES
    backend,        \* "local" when LOCAL_VOLUME_PATH is set, else "s3"
    jobs,           \* the orchestrator's Job objects, by job id
    cms,            \* the orchestrator's ConfigMap objects, by job id
    nextUid,        \* the next metadata.uid the orchestrator assigns
    store,          \* the storage backend: remote path -> object
    worker,         \* the pod of each Job running train.py main()
    issued,         \* job ids uuid4() has produced so far
    req,            \* history: the request train() was called with, by job id
    returned,       \* history: job ids that train() has returned to a caller
    cancelPending,  \* cancel() calls between their status read and their delete
    cancelTrue,     \* history: number of cancel() calls that returned True
    logsPending,    \* a logs() call is between its pod list and its log read
    ret,            \* the outcome of the request handled in the last step
    upc,            \* upload_to_s3: position of the loop
    ubase,          \* upload_to_s3: the pause argument of the call
    umax,           \* upload_to_s3: the max_pause argument of the call
    upause,         \* upload_to_s3: the local variable pause
    ufails,         \* upload_to_s3 history: consecutive failed attempts
    uslept,         \* upload_to_s3 history: the duration of the last sleep
    uobj,           \* upload_to_s3: whether s3_path holds the uploaded file
    patch,          \* dict_set: the arguments of a call and its outcome
    hashed          \* two training-data documents and what train() derives

sysvars == <<backend, jobs, cms, nextUid, store, worker, issued, req, returned,
             cancelPending, cancelTrue, logsPending>>
upvars == <<upc, ubase, umax, upause, ufails, uslept, uobj>>
vars == <<sysvars, ret, upvars, patch, hashed>>

----------------------------------------------------------------------------
(* Bounds *)

MaxJobs == 2        \* job ids; train() requests per behaviour of SpecShared
MainJobs == 1       \* train() requests per behaviour of Spec
MaxCancel == 2      \* cancel() calls of one job in flight at once
MaxCount == 2       \* largest Job status counter drawn in SpecStatus
MaxExit == 2        \* largest exit code of the training command
MaxFails == 10      \* failed upload attempts counted (the count saturates)
MaxBase == 3        \* largest small pause argument drawn in SpecUpload
MaxCap == 6         \* largest small max_pause argument drawn in SpecUpload
MaxItems == 2       \* longest sequence in a template document of SpecPatch
MaxPathLen == 4     \* most segments in a dotted path of SpecPatch
MaxPairs == 2       \* most entries in a training-data document of SpecHash
MaxKey == 3         \* largest mapping key in a document of SpecHash
MaxVal == 2         \* largest entry value in a document of SpecHash

(* Program constants *)

DefaultPause == 10
DefaultMaxPause == 2560

S3_DIR == "models"
S3_CACHE_DIR == "models-cache"
KUBE_DEFAULT_NAME_PREFIX == "et"

JobIds == 1..MaxJobs
Projects == {"p1", "p2"}
Nodes == {"n1"}
NoNode == "None"

----------------------------------------------------------------------------
(* Training data: yaml.safe_load, yaml.safe_dump(sort_keys=True), md5 *)

\* A document is its mapping entries in textual order and its style.
Doc(pairs, flow) == [pairs |-> pairs, flow |-> flow]

\* The documents submitted: DocA and DocB are the same mapping, written in
\* another key order and another style; DocC is another mapping.
DocA == Doc(<<<<1, 1>>, <<2, 1>>>>, FALSE)
DocB == Doc(<<<<2, 1>>, <<1, 1>>>>, TRUE)
DocC == Doc(<<<<1, 2>>>>, FALSE)
TrainingDocs == {DocA, DocB, DocC}

DocKeys(doc) == {doc.pairs[i][1] : i \in 1..Len(doc.pairs)}

\* The keys of a document in the order of their first entries: the
\* insertion order of the dict that yaml.safe_load builds.
RECURSIVE InsertionOrder(_)
InsertionOrder(pairs) ==
    IF pairs = <<>> THEN <<>>
    ELSE LET before == InsertionOrder(SubSeq(pairs, 1, Len(pairs) - 1))
             k == pairs[Len(pairs)][1]
         IN IF \E i \in 1..Len(before) : before[i] = k THEN before
            ELSE Append(before, k)

\* yaml.safe_load: the dict, its mapping (kv: of a repeated key the last
\* entry counts) and its insertion order. Two dicts are equal (==) when
\* their mappings are.
safe_load(doc) ==
    [kv |-> [k \in DocKeys(doc) |->
                LET last == CHOOSE i \in 1..Len(doc.pairs) :
                                /\ doc.pairs[i][1] = k
                                /\ \A n \in 1..Len(doc.pairs) :
                                       doc.pairs[n][1] = k => n <= i
                IN doc.pairs[last][2]],
     order |-> InsertionOrder(doc.pairs)]

RECURSIVE SortedPairs(_, _)
SortedPairs(m, keys) ==
    IF keys = {} THEN <<>>
    ELSE LET k == CHOOSE x \in keys : \A y \in keys : x <= y
         IN <<<<k, m[k]>>>> \o SortedPairs(m, keys \ {k})

\* Mapping keys are numbered: keys 1 and 2 are str keys, key 3 and above
\* are int keys (a document may write `3: x`).
KeyType(k) == IF k >= 3 THEN "int" ELSE "str"

\* sorted(mapping.items()) raises TypeError when two keys are of types
\* that Python does not order (a str and an int).
Sortable(keys) == \A a, b \in keys : KeyType(a) = KeyType(b)

\* yaml's represent_mapping with sort_keys: the items sorted, or, when
\* sorted() raises TypeError, left in the dict's insertion order.
represent_mapping(m) ==
    IF Sortable(DOMAIN m.kv) THEN SortedPairs(m.kv, DOMAIN m.kv)
    ELSE [i \in 1..Len(m.order) |-> <<m.order[i], m.kv[m.order[i]]>>]

\* yaml.safe_dump(value, sort_keys=True): block style.
safe_dump(m) == Doc(represent_mapping(m), FALSE)

\* hashlib.md5(text).hexdigest(): a digest per text (collisions are not
\* modelled).
md5(text) == [md5 |-> text.pairs]

NoHash == [md5 |-> <<<<0, 0>>>>]

Canonical(training_data) == safe_dump(safe_load(training_data))
DataHash(training_data) == md5(Canonical(training_data))
Hashes == {DataHash(d) : d \in TrainingDocs}

----------------------------------------------------------------------------
(* Names and remote paths *)

job_name(job_id) == <<KUBE_DEFAULT_NAME_PREFIX, "job", job_id>>

\* The ConfigMap named as the Job is.
cm_name_as_job(job_id) == <<KUBE_DEFAULT_NAME_PREFIX, "job", job_id>>

cm_name(job_id) == <<KUBE_DEFAULT_NAME_PREFIX, "cm", job_id>>

\* A Model Directory that leaves the project out of the path.
s3_model_dir_no_project(project_id, data_hash) ==
    [prefix |-> S3_DIR, project |-> "p1", hash |-> data_hash]

s3_model_dir(project_id, data_hash) ==
    [prefix |-> S3_DIR, project |-> project_id, hash |-> data_hash]

FilePath(dir, file) ==
    [prefix |-> dir.prefix, project |-> dir.project, hash |-> dir.hash,
     file |-> file]

CachePath(project_id) ==
    [prefix |-> S3_CACHE_DIR, project |-> project_id, hash |-> NoHash,
     file |-> "cache.tar.gz"]

NoPath == [prefix |-> "None", project |-> "None", hash |-> NoHash,
           file |-> "None"]
NoDir == [prefix |-> "None", project |-> "None", hash |-> NoHash]

ModelDirs == {s3_model_dir(p, h) : p \in Projects, h \in Hashes}
Paths == {FilePath(d, f) : d \in ModelDirs, f \in {"train_data.yml", "model.tar.gz"}}
             \cup {CachePath(p) : p \in Projects}

\* A stored object: who wrote it (0: nobody, the path holds nothing) and
\* whether the write completed.
Obj(by, full) == [by |-> by, full |-> full]
NoObj == Obj(0, FALSE)

----------------------------------------------------------------------------
(* Orchestrator objects *)

NoneCount == -1     \* a status counter the orchestrator left unset (None)

NoJob == [name |-> "absent"]
NoCm == [name |-> "absent"]

\* Python truthiness of an Optional[int].
Truthy(count) == count # NoneCount /\ count # 0

Request(project_id, training_data, node, use_cache) ==
    [project_id |-> project_id, training_data |-> training_data,
     node |-> node, use_cache |-> use_cache]
NoRequest == Request("None", Doc(<<>>, FALSE), NoNode, FALSE)
Requests == {Request(p, d, n, c) : p \in Projects, d \in TrainingDocs,
                                   n \in Nodes \cup {NoNode}, c \in BOOLEAN}

\* The outcome of a request, as the caller sees it.
\* The outcome of a request, as the caller sees it; api is what the
\* orchestrator or the storage answered to the last call the operation made
\* ("ok", "404", "400", or "error" for any other failure).
NoRet == [op |-> "none", id |-> 0, val |-> "none", created |-> FALSE,
          jobAns |-> "none", cmAns |-> "none", dir |-> NoDir, obj |-> NoObj,
          api |-> "none"]
Ret(op, id, val) == [NoRet EXCEPT !.op = op, !.id = id, !.val = val]
Answered(op, id, val, api) == [Ret(op, id, val) EXCEPT !.api = api]

----------------------------------------------------------------------------
(* K8sJobManager.train: the Job and ConfigMap manifests *)

LOCAL_VOLUME_PATH == "/volume"

\* An environment that has the cache path whatever use_cache is.
job_envs_with_cache(r, td_hash, be) ==
    ("S3_MODEL_DIR" :> s3_model_dir(r.project_id, td_hash))
        @@ ("S3_CACHE_PATH" :> CachePath(r.project_id))
        @@ (IF be = "local"
            THEN ("LOCAL_VOLUME_PATH" :> LOCAL_VOLUME_PATH)
            ELSE <<>>)

\* The container environment train() builds (job_envs): a variable is in
\* the domain exactly when the code appends it.
job_envs(r, td_hash, be) ==
    ("S3_MODEL_DIR" :> s3_model_dir(r.project_id, td_hash))
        @@ (IF r.use_cache
            THEN ("S3_CACHE_PATH" :> CachePath(r.project_id))
            ELSE <<>>)
        @@ (IF be = "local"
            THEN ("LOCAL_VOLUME_PATH" :> LOCAL_VOLUME_PATH)
            ELSE <<>>)

\* The pod spec fields train() patches into the template.
pod_spec(job_id, r) ==
    ("configMap" :> cm_name(job_id))
        @@ (IF r.node # NoNode THEN ("nodeName" :> r.node) ELSE <<>>)

\* The Job manifest after the dict_set calls; uid and status are the
\* orchestrator's, set when it creates the object.
job_manifest(job_id, r, td_hash, be) ==
    [name |-> job_name(job_id),
     labels |-> [project_id |-> r.project_id, data_hash |-> td_hash],
     env |-> job_envs(r, td_hash, be),
     spec |-> pod_spec(job_id, r),
     uid |-> 0,
     active |-> NoneCount, succeeded |-> NoneCount, failed |-> NoneCount]

\* A ConfigMap whose owner reference carries no uid of the created Job.
cm_manifest_without_uid(job_id, r, td_hash, job_uid) ==
    [name |-> cm_name(job_id),
     labels |-> [job_id |-> job_id, project_id |-> r.project_id,
                 data_hash |-> td_hash],
     owner |-> [name |-> job_name(job_id), uid |-> 0],
     uid |-> 0]

\* The ConfigMap manifest after the dict_set calls of lines 216-223.
cm_manifest(job_id, r, td_hash, job_uid) ==
    [name |-> cm_name(job_id),
     labels |-> [job_id |-> job_id, project_id |-> r.project_id,
                 data_hash |-> td_hash],
     owner |-> [name |-> job_name(job_id), uid |-> job_uid],
     uid |-> 0]

\* str(uuid4()): an identifier no earlier call produced.
uuid4 == Cardinality(issued) + 1

\* How far train() gets: the training-data upload fails; the creation of the
\* Job is answered with an error other than AlreadyExists, or with
\* AlreadyExists; the same for the ConfigMap; or everything succeeds.
TrainOutcomes == {"upload_error", "job_error", "job_exists", "cm_error",
                  "cm_exists", "ok"}

JobAnswer(o) ==
    CASE o = "upload_error" -> "none"
      [] o = "job_error" -> "error"
      [] o = "job_exists" -> "exists"
      [] OTHER -> "created"

CmAnswer(o) ==
    CASE o \in {"upload_error", "job_error", "job_exists"} -> "none"
      [] o = "cm_error" -> "error"
      [] o = "cm_exists" -> "exists"
      [] OTHER -> "created"

\* kubernetes.utils.create_from_dict as train() calls it: whether the call
\* returns (TRUE) or raises FailToCreateError (FALSE), by the orchestrator's
\* answer.
create_from_dict_returns(answer) == answer = "created"

\* The value train() returns for created.
train_created == TRUE

\* The orchestrator's side of a create request: the object is there after a
\* "created" answer and after an "exists" answer (an object of that name
\* exists; the one already there is kept).
Created(old, absent, manifest, answer, uid) ==
    IF answer \in {"created", "exists"} /\ old = absent
    THEN [manifest EXCEPT !.uid = uid]
    ELSE old

\* A pod: where main() is (pc), its exit code (-1 while it runs), its
\* environment, whether .rasa/cache exists, whether the model artifact was
\* uploaded, and the return code of the training command (-1 before it
\* ended).
NoWorker == [pc |-> "nopod", exit |-> -1, env |-> <<>>, cacheDir |-> FALSE,
             modelUp |-> FALSE, rc |-> -1]

train(r, o) ==
    LET training_data == Canonical(r.training_data)
        td_hash == md5(training_data)
        job_id == uuid4
        model_dir == s3_model_dir(r.project_id, td_hash)
        train_data_path == FilePath(model_dir, "train_data.yml")
        jobAns == JobAnswer(o)
        cmAns == CmAnswer(o)
        job == job_manifest(job_id, r, td_hash, backend)
        newJob == Created(jobs[job_id], NoJob, job, jobAns, nextUid)
        jobDone == jobAns # "none" /\ create_from_dict_returns(jobAns)
        cm == cm_manifest(job_id, r, td_hash, newJob.uid)
        newCm == Created(cms[job_id], NoCm, cm, cmAns, nextUid + 1)
        cmDone == cmAns # "none" /\ create_from_dict_returns(cmAns)
    IN /\ job_id \in JobIds
       /\ jobAns = "created" => jobs[job_id] = NoJob
       /\ cmAns = "created" => cms[job_id] = NoCm
       /\ issued' = issued \cup {job_id}
       /\ req' = [req EXCEPT ![job_id] = r]
       /\ store' = IF o = "upload_error" THEN store
                   ELSE [store EXCEPT ![train_data_path] = Obj(job_id, TRUE)]
       /\ jobs' = [jobs EXCEPT ![job_id] = newJob]
       /\ cms' = IF jobDone THEN [cms EXCEPT ![job_id] = newCm] ELSE cms
       /\ nextUid' = nextUid + 2
       /\ returned' = IF jobDone /\ cmDone THEN Append(returned, job_id)
                      ELSE returned
       /\ ret' = [Ret("train", job_id,
                      IF jobDone /\ cmDone THEN "ok" ELSE "raised")
                    EXCEPT !.created = jobDone /\ cmDone /\ train_created,
                           !.jobAns = jobAns, !.cmAns = cmAns,
                           !.dir = model_dir]
       /\ UNCHANGED <<backend, worker, cancelPending, cancelTrue, logsPending, upvars, patch, hashed>>

----------------------------------------------------------------------------
(* K8sJobManager: status, cancel, result *)

ApiAnswers == {"ok", "error"}

\* _get_job: the Job object, or None when the orchestrator answers 404.
_get_job(job_id) == jobs[job_id]

\* The orchestrator's answer to a read or a delete of the Job.
JobApi(job_id, api) ==
    IF api = "error" THEN "error"
    ELSE IF jobs[job_id] = NoJob THEN "404"
    ELSE "ok"

\* status() with the active count read before the succeeded count.
StatusOfActiveFirst(job) ==
    IF job = NoJob THEN "none"
    ELSE IF Truthy(job.active) THEN "training"
    ELSE IF Truthy(job.succeeded) THEN "success"
    ELSE IF Truthy(job.failed) THEN "failed"
    ELSE "none"

\* The value status() derives from a Job object (None: NoJob).
StatusOf(job) ==
    IF job = NoJob THEN "none"
    ELSE IF Truthy(job.succeeded) THEN "success"
    ELSE IF Truthy(job.active) THEN "training"
    ELSE IF Truthy(job.failed) THEN "failed"
    ELSE "none"

status(job_id, api) ==
    /\ ret' = Answered("status", job_id,
                       IF api = "error" THEN "raised"
                       ELSE StatusOf(_get_job(job_id)),
                       JobApi(job_id, api))
    /\ UNCHANGED <<sysvars, upvars, patch, hashed>>

\* A cancel() that goes on to its delete request whatever the status.
cancel_unchecked(job_id) == TRUE

\* Line 256: cancel() goes on to its delete request only when the status it
\* reads is training.
cancel_proceeds(job_id) == StatusOf(_get_job(job_id)) = "training"

\* cancel() up to its delete request: the status read and the early return.
cancel_check(job_id, api) ==
    IF api = "error"
    THEN /\ ret' = Answered("cancel", job_id, "raised", "error")
         /\ UNCHANGED <<sysvars, upvars, patch, hashed>>
    ELSE IF ~cancel_proceeds(job_id)
    THEN /\ ret' = Answered("cancel", job_id, "False", JobApi(job_id, api))
         /\ UNCHANGED <<sysvars, upvars, patch, hashed>>
    ELSE /\ cancelPending[job_id] < MaxCancel
         /\ cancelPending' = [cancelPending EXCEPT ![job_id] = @ + 1]
         /\ ret' = NoRet
         /\ UNCHANGED <<backend, jobs, cms, nextUid, store, worker, issued,
                        req, returned, cancelTrue, logsPending, upvars, patch, hashed>>

\* What delete_namespaced_job leaves of the Job object.
delete_namespaced_job(job) == NoJob

\* cancel() from its delete request on: 404 gives False, another error is
\* raised, a deleted Job gives True.
cancel_delete(job_id, api) ==
    /\ cancelPending[job_id] > 0
    /\ cancelPending' = [cancelPending EXCEPT ![job_id] = @ - 1]
    /\ IF api = "error"
       THEN /\ ret' = Answered("cancel", job_id, "raised", "error")
            /\ UNCHANGED <<jobs, cancelTrue>>
       ELSE IF jobs[job_id] = NoJob
       THEN /\ ret' = Answered("cancel", job_id, "False", "404")
            /\ UNCHANGED <<jobs, cancelTrue>>
       ELSE /\ jobs' = [jobs EXCEPT ![job_id] = delete_namespaced_job(@)]
            /\ cancelTrue' = [cancelTrue EXCEPT ![job_id] = @ + 1]
            /\ ret' = Answered("cancel", job_id, "True", "ok")
    /\ UNCHANGED <<backend, cms, nextUid, store, worker, issued, req,
                   returned, logsPending, upvars, patch, hashed>>

\* The pods list_namespaced_pod finds for the Job's name.
PodListed(job_id) == worker[job_id].pc \notin {"nopod", "gone"}

\* logs() up to its log read: the pod list; no pod gives None.
logs_list(job_id, api) ==
    IF api = "error"
    THEN /\ ret' = Answered("logs", job_id, "raised", "error")
         /\ UNCHANGED <<sysvars, upvars, patch, hashed>>
    ELSE IF ~PodListed(job_id)
    THEN /\ ret' = Answered("logs", job_id, "None", "ok")
         /\ UNCHANGED <<sysvars, upvars, patch, hashed>>
    ELSE /\ ~logsPending[job_id]
         /\ logsPending' = [logsPending EXCEPT ![job_id] = TRUE]
         /\ ret' = NoRet
         /\ UNCHANGED <<backend, jobs, cms, nextUid, store, worker, issued,
                        req, returned, cancelPending, cancelTrue, upvars, patch, hashed>>

\* The orchestrator's answer to read_namespaced_pod_log: 404 when the pod
\* is gone, 400 while its container has not started.
PodLogApi(job_id, api) ==
    IF api = "error" THEN "error"
    ELSE IF ~PodListed(job_id) THEN "404"
    ELSE IF worker[job_id].pc = "pending" THEN "400"
    ELSE "ok"

\* Lines 278-284: the log text; None when the answer is 400; any other
\* ApiException is raised again.
logs_outcome(answer) ==
    IF answer = "ok" THEN "Text"
    ELSE IF answer = "400" THEN "None"
    ELSE "raised"

\* logs() from its log read on.
logs_read(job_id, api) ==
    /\ logsPending[job_id]
    /\ logsPending' = [logsPending EXCEPT ![job_id] = FALSE]
    /\ ret' = Answered("logs", job_id, logs_outcome(PodLogApi(job_id, api)),
                       PodLogApi(job_id, api))
    /\ UNCHANGED <<backend, jobs, cms, nextUid, store, worker, issued, req,
                   returned, cancelPending, cancelTrue, upvars, patch, hashed>>

\* _get_s3_result_dir without its check of the succeeded count.
result_dir_unchecked(job_id) ==
    LET job == _get_job(job_id)
    IN IF job = NoJob THEN NoDir
       ELSE s3_model_dir(job.labels.project_id, job.labels.data_hash)

\* _get_s3_result_dir: None unless the Job exists and has succeeded.
_get_s3_result_dir(job_id) ==
    LET job == _get_job(job_id)
    IN IF job = NoJob THEN NoDir
       ELSE IF ~Truthy(job.succeeded) THEN NoDir
       ELSE s3_model_dir(job.labels.project_id, job.labels.data_hash)

\* result(): None, a Path into the local volume, or the body of the S3
\* object (s3_obj.get() raises when the key holds nothing). ret.obj is what
\* the caller reads through the handle.
result(job_id, api) ==
    LET result_dir == _get_s3_result_dir(job_id)
        model_path == FilePath(result_dir, "model.tar.gz")
    IN /\ ret' = IF api = "error"
                 THEN Answered("result", job_id, "raised", "error")
                 ELSE IF result_dir = NoDir
                 THEN Answered("result", job_id, "None", JobApi(job_id, api))
                 ELSE IF backend = "local"
                 THEN [Answered("result", job_id, "Path", "ok")
                         EXCEPT !.dir = result_dir, !.obj = store[model_path]]
                 ELSE IF store[model_path] = NoObj
                 THEN [Answered("result", job_id, "raised", "404")
                         EXCEPT !.dir = result_dir]
                 ELSE [Answered("result", job_id, "StreamingBody", "ok")
                         EXCEPT !.dir = result_dir, !.obj = store[model_path]]
       /\ UNCHANGED <<sysvars, upvars, patch, hashed>>

----------------------------------------------------------------------------
(* The orchestrator: Job controller, kubelet, garbage collector *)

Running == {"pending", "download", "cache_restore", "train", "upload_model",
            "copy_model", "archive", "upload_cache", "copy_cache"}

SetWorker(job_id, w) ==
    /\ worker' = [worker EXCEPT ![job_id] = w]
    /\ ret' = NoRet
    /\ UNCHANGED <<backend, jobs, cms, nextUid, issued, req, returned,
                   cancelPending, cancelTrue, logsPending, upvars, patch, hashed>>

\* The Job controller creates the Job's one pod and counts it active.
PodCreate(job_id) ==
    /\ jobs[job_id] # NoJob
    /\ worker[job_id].pc = "nopod"
    /\ jobs' = [jobs EXCEPT ![job_id].active = 1]
    /\ worker' = [worker EXCEPT ![job_id] =
                     [NoWorker EXCEPT !.pc = "pending",
                                      !.env = jobs[job_id].env]]
    /\ ret' = NoRet
    /\ UNCHANGED <<backend, cms, nextUid, store, issued, req, returned,
                   cancelPending, cancelTrue, logsPending, upvars, patch, hashed>>

\* The container starts once its ConfigMap volume (train.py) can be mounted.
ContainerStart(job_id) ==
    /\ worker[job_id].pc = "pending"
    /\ cms[job_id] # NoCm
    /\ SetWorker(job_id, [worker[job_id] EXCEPT !.pc = "download"])
    /\ UNCHANGED store

\* The Job controller counts the finished pod: exit code 0 as succeeded,
\* another as failed (the pod is not retried). The active count may be
\* brought down in the same update or stay for one more (stale).
PodFinish(job_id, stale) ==
    /\ jobs[job_id] # NoJob
    /\ worker[job_id].pc = "exited"
    /\ jobs' = [jobs EXCEPT ![job_id] =
                   [@ EXCEPT !.succeeded =
                                 IF worker[job_id].exit = 0 THEN 1 ELSE @,
                             !.failed =
                                 IF worker[job_id].exit # 0 THEN 1 ELSE @,
                             !.active = IF stale THEN @ ELSE NoneCount]]
    /\ worker' = [worker EXCEPT ![job_id].pc = "counted"]
    /\ ret' = NoRet
    /\ UNCHANGED <<backend, cms, nextUid, store, issued, req, returned,
                   cancelPending, cancelTrue, logsPending, upvars, patch, hashed>>

ActiveSettle(job_id) ==
    /\ jobs[job_id] # NoJob
    /\ worker[job_id].pc = "counted"
    /\ jobs[job_id].active = 1
    /\ jobs' = [jobs EXCEPT ![job_id].active = NoneCount]
    /\ ret' = NoRet
    /\ UNCHANGED <<backend, cms, nextUid, store, worker, issued, req,
                   returned, cancelPending, cancelTrue, logsPending, upvars, patch, hashed>>

\* The Job is deleted by something other than cancel(): its TTL, an
\* administrator.
JobDeleted(job_id) ==
    /\ jobs[job_id] # NoJob
    /\ jobs' = [jobs EXCEPT ![job_id] = NoJob]
    /\ ret' = NoRet
    /\ UNCHANGED <<backend, cms, nextUid, store, worker, issued, req,
                   returned, cancelPending, cancelTrue, logsPending, upvars,
                   patch, hashed>>

\* Background propagation: after the Job is deleted the orchestrator
\* removes its pod, running or finished, ...
PodGC(job_id) ==
    /\ jobs[job_id] = NoJob
    /\ worker[job_id].pc \notin {"nopod", "gone"}
    /\ SetWorker(job_id, [worker[job_id] EXCEPT !.pc = "gone"])
    /\ UNCHANGED store

\* Whether the Job an owner reference names (by uid) exists.
OwnerExists(owner) ==
    \E j \in JobIds :
        IF jobs[j] = NoJob THEN FALSE ELSE jobs[j].uid = owner.uid

\* ... and the ConfigMap whose owner reference names it.
CmGC(job_id) ==
    /\ cms[job_id] # NoCm
    /\ ~OwnerExists(cms[job_id].owner)
    /\ cms' = [cms EXCEPT ![job_id] = NoCm]
    /\ ret' = NoRet
    /\ UNCHANGED <<backend, jobs, nextUid, store, worker, issued, req,
                   returned, cancelPending, cancelTrue, logsPending, upvars, patch, hashed>>

----------------------------------------------------------------------------
(* The worker: train.py main() *)

\* os.getenv(name): None (NoPath) when the variable is not set.
getenv(env, name) == IF name \in DOMAIN env THEN env[name] ELSE NoPath

\* sys.exit(code), or the interpreter's exit code 1 for an uncaught
\* exception.
Exit(w, code) == [w EXCEPT !.pc = "exited", !.exit = code]

IsLocal(w) == "LOCAL_VOLUME_PATH" \in DOMAIN w.env

\* storage.download_file of the training data (lines 90-93); an exception
\* ends main().
DownloadTrainData(job_id, ok) ==
    LET w == worker[job_id]
        remote == FilePath(getenv(w.env, "S3_MODEL_DIR"), "train_data.yml")
    IN /\ w.pc = "download"
       /\ ok => store[remote] # NoObj
       /\ SetWorker(job_id,
              IF ~ok THEN Exit(w, 1)
              ELSE IF getenv(w.env, "S3_CACHE_PATH") # NoPath
              THEN [w EXCEPT !.pc = "cache_restore"]
              ELSE [w EXCEPT !.pc = "train"])
       /\ UNCHANGED store

\* A cache restore whose failure ends main() as an uncaught exception does.
restore_failed_exits(w) == Exit(w, 1)

\* Lines 102-104: except Exception prints the traceback and main() goes on
\* to the training command, without .rasa/cache.
restore_failed(w) == [w EXCEPT !.pc = "train", !.cacheDir = FALSE]

\* Lines 95-104: the cache download and unpack_archive inside try/except
\* Exception; .rasa/cache exists afterwards when the archive was unpacked.
\* The download fails when the path holds nothing, unpack_archive when the
\* archive is not whole, and either may fail for another reason.
CacheRestore(job_id, ok) ==
    LET w == worker[job_id]
    IN /\ w.pc = "cache_restore"
       /\ ok => /\ store[getenv(w.env, "S3_CACHE_PATH")] # NoObj
                /\ store[getenv(w.env, "S3_CACHE_PATH")].full
       /\ SetWorker(job_id,
              IF ok THEN [w EXCEPT !.pc = "train", !.cacheDir = TRUE]
              ELSE restore_failed(w))
       /\ UNCHANGED store

\* A worker that exits 1 whatever the training command returned.
exit_one(returncode) == 1

\* Line 121: exit(res.returncode); the process's exit status is the low
\* eight bits.
exit_returncode(returncode) == returncode % 256

\* Lines 119-121: rasa train ends with returncode; nonzero is main()'s exit
\* code. rasa may have created .rasa/cache (mkcache).
Train(job_id, returncode, mkcache) ==
    LET w == worker[job_id]
    IN /\ w.pc = "train"
       /\ SetWorker(job_id,
              IF returncode # 0
              THEN Exit([w EXCEPT !.rc = returncode],
                        exit_returncode(returncode))
              ELSE [w EXCEPT !.pc = "upload_model", !.rc = returncode,
                             !.cacheDir = @ \/ mkcache])
       /\ UNCHANGED store

\* Where main() goes after storage.upload_file returned.
AfterUpload(w) ==
    IF w.pc \in {"upload_model", "copy_model"}
    THEN IF getenv(w.env, "S3_CACHE_PATH") # NoPath /\ w.cacheDir
         THEN [w EXCEPT !.pc = "archive", !.modelUp = TRUE]
         ELSE Exit([w EXCEPT !.modelUp = TRUE], 0)
    ELSE Exit(w, 0)

UploadTarget(w) ==
    IF w.pc \in {"upload_model", "copy_model"}
    THEN FilePath(getenv(w.env, "S3_MODEL_DIR"), "model.tar.gz")
    ELSE getenv(w.env, "S3_CACHE_PATH")

\* S3Storage.upload_file, one attempt of upload_to_s3's loop: the object is
\* put whole, or the attempt fails and the loop goes round.
S3Upload(job_id, ok) ==
    LET w == worker[job_id]
    IN /\ w.pc \in {"upload_model", "upload_cache"}
       /\ ~IsLocal(w)
       /\ IF ok
          THEN /\ store' = [store EXCEPT ![UploadTarget(w)] = Obj(job_id, TRUE)]
               /\ SetWorker(job_id, AfterUpload(w))
          ELSE /\ UNCHANGED store
               /\ SetWorker(job_id, w)

\* LocalStorage.upload_file: makedirs, then shutil.copy opens the
\* destination for writing (what it held is gone) ...
LocalCopyOpen(job_id, ok) ==
    LET w == worker[job_id]
    IN /\ w.pc \in {"upload_model", "upload_cache"}
       /\ IsLocal(w)
       /\ IF ok
          THEN /\ store' = [store EXCEPT ![UploadTarget(w)] = Obj(job_id, FALSE)]
               /\ SetWorker(job_id,
                      [w EXCEPT !.pc = IF @ = "upload_model"
                                       THEN "copy_model" ELSE "copy_cache"])
          ELSE /\ UNCHANGED store
               /\ SetWorker(job_id, Exit(w, 1))

\* ... and writes it; an exception on the way ends main().
LocalCopyWrite(job_id, ok) ==
    LET w == worker[job_id]
    IN /\ w.pc \in {"copy_model", "copy_cache"}
       /\ IF ok
          THEN /\ store' = [store EXCEPT ![UploadTarget(w)] = Obj(job_id, TRUE)]
               /\ SetWorker(job_id, AfterUpload(w))
          ELSE /\ UNCHANGED store
               /\ SetWorker(job_id, Exit(w, 1))

\* Line 129: shutil.make_archive; an exception ends main().
Archive(job_id, ok) ==
    LET w == worker[job_id]
    IN /\ w.pc = "archive"
       /\ SetWorker(job_id,
              IF ok THEN [w EXCEPT !.pc = "upload_cache"] ELSE Exit(w, 1))
       /\ UNCHANGED store

----------------------------------------------------------------------------
(* upload_to_s3: the retry loop of one call *)

\* Lines 156-157: the pause for the next failure.
NextPause(pause, max_pause) == IF pause < max_pause THEN pause * 2 ELSE pause

\* A loop that gives up after three failed attempts.
AfterFailureLimited(fails) == IF fails >= 3 THEN "raised" ELSE "attempt"

\* Where the loop is after a failed attempt was handled: at its head again.
AfterFailure(fails) == "attempt"

Saturated(n) == IF n < MaxFails THEN n + 1 ELSE n

\* One pass of the loop body: s3.upload_file succeeds and the loop breaks,
\* or it raises, the handler sleeps for pause and updates it.
upload_attempt(ok) ==
    /\ upc = "attempt"
    /\ IF ok
       THEN /\ uobj' = TRUE
            /\ upc' = "returned"
            /\ UNCHANGED <<upause, ufails, uslept>>
       ELSE /\ uslept' = upause
            /\ upause' = NextPause(upause, umax)
            /\ ufails' = Saturated(ufails)
            /\ upc' = AfterFailure(ufails')
            /\ UNCHANGED uobj
    /\ UNCHANGED <<sysvars, ret, ubase, umax, patch, hashed>>

UploadOk == upload_attempt(TRUE)
UploadFail == upload_attempt(FALSE)

\* The pause and max_pause arguments: the defaults, and small values.
PauseArgs == {<<DefaultPause, DefaultMaxPause>>}
                 \cup {<<b, c>> \in (1..MaxBase) \X (1..MaxCap) : b <= c}

----------------------------------------------------------------------------
(* dict_set: patching a template document at a dotted path *)

\* A document value: a mapping (dict), a sequence (list) or a scalar (str
\* of len characters). An exception is a value of its own.
Dict(kv) == [t |-> "map", kv |-> kv]
List(items) == [t |-> "seq", items |-> items]
Str(v, len) == [t |-> "str", v |-> v, len |-> len]
Raised(e) == [t |-> "raised", e |-> e]

\* int(k): the segments it parses; every other segment is a ValueError.
IntOf == ("0" :> 0) @@ ("1" :> 1) @@ ("-1" :> -1)
IsInt(k) == k \in DOMAIN IntOf

\* A dict key that is the int i, as opposed to the str key of that numeral.
IntKey(k) == CASE k = "0" -> "int 0" [] k = "1" -> "int 1" [] OTHER -> "int -1"

\* Python's list and str indexing: i from -len to len - 1 (negative from the
\* end); the position counted from 1.
InRange(i, len) == -len <= i /\ i < len
Pos(i, len) == IF i < 0 THEN len + i + 1 ELSE i + 1

\* current[i] for the int of segment k (line 56), current[k] otherwise
\* (line 58).
GetItem(current, k) ==
    IF IsInt(k)
    THEN CASE current.t = "seq" ->
                  IF InRange(IntOf[k], Len(current.items))
                  THEN current.items[Pos(IntOf[k], Len(current.items))]
                  ELSE Raised("IndexError")
           [] current.t = "map" ->
                  IF IntKey(k) \in DOMAIN current.kv
                  THEN current.kv[IntKey(k)]
                  ELSE Raised("KeyError")
           [] OTHER ->
                  IF InRange(IntOf[k], current.len)
                  THEN Str("char", 1)
                  ELSE Raised("IndexError")
    ELSE CASE current.t = "map" ->
                  IF k \in DOMAIN current.kv THEN current.kv[k]
                  ELSE Raised("KeyError")
           [] OTHER -> Raised("TypeError")

\* A mapping with key k bound to value, created when absent.
Bind(kv, k, value) == (k :> value) @@ kv

\* A list assignment that appends when the index is the length.
SetIndexAppending(items, i, value) ==
    IF i = Len(items) THEN List(Append(items, value))
    ELSE IF InRange(i, Len(items))
    THEN List([items EXCEPT ![Pos(i, Len(items))] = value])
    ELSE Raised("IndexError")

\* list.__setitem__: only an existing index is written.
SetIndex(items, i, value) ==
    IF InRange(i, Len(items))
    THEN List([items EXCEPT ![Pos(i, Len(items))] = value])
    ELSE Raised("IndexError")

\* A mapping assignment that keeps no other key.
SetKeyAlone(kv, k, value) == (k :> value)

\* dict.__setitem__: the key is overwritten or created.
SetKey(kv, k, value) == Bind(kv, k, value)

\* current[i] = value (line 62), current[k] = value (line 64): current
\* afterwards, or the exception.
SetItem(current, k, value) ==
    IF IsInt(k)
    THEN CASE current.t = "seq" -> SetIndex(current.items, IntOf[k], value)
           [] current.t = "map" -> Dict(SetKey(current.kv, IntKey(k), value))
           [] OTHER -> Raised("TypeError")
    ELSE CASE current.t = "map" -> Dict(SetKey(current.kv, k, value))
           [] OTHER -> Raised("TypeError")

\* The parent after the child that segment k selected was mutated in place.
Mutated(current, k, child) ==
    IF current.t = "str" THEN current
    ELSE SetItem(current, k, child)

\* dict_set(d, path, value) with path split at the dots: d afterwards, or
\* the exception the walk (lines 53-58) or the assignment (60-64) raised.
RECURSIVE dict_set(_, _, _)
dict_set(d, keys, value) ==
    IF Len(keys) = 1 THEN SetItem(d, keys[1], value)
    ELSE LET current == GetItem(d, keys[1])
         IN IF current.t = "raised" THEN current
            ELSE LET after == dict_set(current, Tail(keys), value)
                 IN IF after.t = "raised" THEN after
                    ELSE Mutated(d, keys[1], after)

\* The template documents: a manifest with a sequence of container entries.
OldImage == Str("old", 3)
ContainerEntries ==
    {Dict(<<>>), Dict("image" :> OldImage),
     Dict(("image" :> OldImage) @@ ("name" :> Str("c", 1)))}
ContainerSeqs ==
    UNION {[1..n -> ContainerEntries] : n \in 0..MaxItems}
Templates ==
    {Dict(("kind" :> Str("Job", 3))
         @@ ("spec" :> Dict("containers" :> List(cs)))) : cs \in ContainerSeqs}

Segments == {"kind", "spec", "containers", "image", "0", "1", "-1"}
DottedPaths == UNION {[1..n -> Segments] : n \in 1..MaxPathLen}
PatchValues == {Str("img:tag", 7)}

NoPatch == [d |-> Dict(<<>>), keys |-> <<>>, value |-> Str("", 0),
            after |-> Dict(<<>>), outcome |-> "idle"]

\* One call of dict_set: the document is mutated, or the exception leaves
\* it as it was.
dict_set_call ==
    /\ patch.outcome = "called"
    /\ LET res == dict_set(patch.d, patch.keys, patch.value)
       IN patch' = IF res.t = "raised"
                   THEN [patch EXCEPT !.outcome = res.e]
                   ELSE [patch EXCEPT !.outcome = "returned", !.after = res]
    /\ UNCHANGED <<sysvars, ret, upvars, hashed>>

----------------------------------------------------------------------------
(* train(): the hash and the Model Directory of two documents *)

\* The documents of up to MaxPairs entries, block or flow style.
PairSeqs ==
    UNION {[1..n -> (1..MaxKey) \X (1..MaxVal)] : n \in 1..MaxPairs}
HashDocs == {Doc(pairs, flow) : pairs \in PairSeqs, flow \in BOOLEAN}

NoHashed == [a |-> Doc(<<>>, FALSE), b |-> Doc(<<>>, FALSE),
             project_id |-> "None", ha |-> NoHash, hb |-> NoHash,
             dira |-> NoDir, dirb |-> NoDir, outcome |-> "idle"]

\* Lines 134-138 for two submissions of one project.
hash_call ==
    /\ hashed.outcome = "called"
    /\ hashed' = [hashed EXCEPT
                     !.ha = DataHash(hashed.a),
                     !.hb = DataHash(hashed.b),
                     !.dira = s3_model_dir(hashed.project_id,
                                           DataHash(hashed.a)),
                     !.dirb = s3_model_dir(hashed.project_id,
                                           DataHash(hashed.b)),
                     !.outcome = "returned"]
    /\ UNCHANGED <<sysvars, ret, upvars, patch>>

----------------------------------------------------------------------------
(* Specifications *)

InitSystem ==
    /\ backend \in {"local", "s3"}
    /\ cms = [j \in JobIds |-> NoCm]
    /\ nextUid = 1
    /\ store = [p \in Paths |-> NoObj]
    /\ worker = [j \in JobIds |-> NoWorker]
    /\ issued = {}
    /\ req = [j \in JobIds |-> NoRequest]
    /\ returned = <<>>
    /\ cancelPending = [j \in JobIds |-> 0]
    /\ cancelTrue = [j \in JobIds |-> 0]
    /\ logsPending = [j \in JobIds |-> FALSE]
    /\ ret = NoRet

IdleUpload ==
    /\ upc = "idle"
    /\ ubase = 0
    /\ umax = 0
    /\ upause = 0
    /\ ufails = 0
    /\ uslept = 0
    /\ uobj = FALSE

NoJobs == jobs = [j \in JobIds |-> NoJob]

IdlePatch == patch = NoPatch /\ hashed = NoHashed

Init == InitSystem /\ NoJobs /\ IdleUpload /\ IdlePatch

Next ==
    \/ /\ Cardinality(issued) < MainJobs
       /\ \E r \in Requests, o \in TrainOutcomes : train(r, o)
    \/ \E j \in JobIds, api \in ApiAnswers : status(j, api)
    \/ \E j \in JobIds, api \in ApiAnswers : cancel_check(j, api)
    \/ \E j \in JobIds, api \in ApiAnswers : cancel_delete(j, api)
    \/ \E j \in JobIds, api \in ApiAnswers : result(j, api)
    \/ \E j \in JobIds : PodCreate(j)
    \/ \E j \in JobIds : ContainerStart(j)
    \/ \E j \in JobIds, stale \in BOOLEAN : PodFinish(j, stale)
    \/ \E j \in JobIds : ActiveSettle(j)
    \/ \E j \in JobIds : PodGC(j)
    \/ \E j \in JobIds : CmGC(j)
    \/ \E j \in JobIds, ok \in BOOLEAN : DownloadTrainData(j, ok)
    \/ \E j \in JobIds, ok \in BOOLEAN : CacheRestore(j, ok)
    \/ \E j \in JobIds, c \in 0..MaxExit, mk \in BOOLEAN : Train(j, c, mk)
    \/ \E j \in JobIds, ok \in BOOLEAN : S3Upload(j, ok)
    \/ \E j \in JobIds, ok \in BOOLEAN : LocalCopyOpen(j, ok)
    \/ \E j \in JobIds, ok \in BOOLEAN : LocalCopyWrite(j, ok)
    \/ \E j \in JobIds, ok \in BOOLEAN : Archive(j, ok)

Spec == Init /\ [][Next]_vars

\* Jobs that share Model Directories: the same project with the same
\* mapping written twice, with another mapping, and another project.
SharedRequests ==
    {Request("p1", DocA, NoNode, FALSE), Request("p1", DocB, NoNode, FALSE),
     Request("p1", DocC, NoNode, FALSE), Request("p2", DocA, NoNode, FALSE)}

NextShared ==
    \/ \E r \in SharedRequests : train(r, "ok")
    \/ \E j \in JobIds : result(j, "ok")
    \/ \E j \in JobIds : cancel_check(j, "ok")
    \/ \E j \in JobIds : cancel_delete(j, "ok")
    \/ \E j \in JobIds : PodCreate(j)
    \/ \E j \in JobIds : ContainerStart(j)
    \/ \E j \in JobIds : PodFinish(j, FALSE)
    \/ \E j \in JobIds : PodGC(j)
    \/ \E j \in JobIds, ok \in BOOLEAN : DownloadTrainData(j, ok)
    \/ \E j \in JobIds, c \in 0..1 : Train(j, c, FALSE)
    \/ \E j \in JobIds, ok \in BOOLEAN : S3Upload(j, ok)
    \/ \E j \in JobIds, ok \in BOOLEAN : LocalCopyOpen(j, ok)
    \/ \E j \in JobIds, ok \in BOOLEAN : LocalCopyWrite(j, ok)

SpecShared == Init /\ [][NextShared]_vars

\* The control process's four read and cancel operations, logs() among
\* them, against one job whose pod comes, runs and goes.
NextLogs ==
    \/ /\ Cardinality(issued) < MainJobs
       /\ \E r \in SharedRequests : train(r, "ok")
    \/ \E j \in JobIds, api \in ApiAnswers : status(j, api)
    \/ \E j \in JobIds, api \in ApiAnswers : cancel_check(j, api)
    \/ \E j \in JobIds, api \in ApiAnswers : cancel_delete(j, api)
    \/ \E j \in JobIds, api \in ApiAnswers : result(j, api)
    \/ \E j \in JobIds, api \in ApiAnswers : logs_list(j, api)
    \/ \E j \in JobIds, api \in ApiAnswers : logs_read(j, api)
    \/ \E j \in JobIds : PodCreate(j)
    \/ \E j \in JobIds : ContainerStart(j)
    \/ \E j \in JobIds : PodFinish(j, FALSE)
    \/ \E j \in JobIds : PodGC(j)
    \/ \E j \in JobIds : CmGC(j)
    \/ \E j \in JobIds : DownloadTrainData(j, TRUE)
    \/ \E j \in JobIds, c \in 0..1 : Train(j, c, FALSE)
    \/ \E j \in JobIds : S3Upload(j, TRUE)
    \/ \E j \in JobIds : LocalCopyOpen(j, TRUE)
    \/ \E j \in JobIds : LocalCopyWrite(j, TRUE)

SpecLogs == Init /\ [][NextLogs]_vars

\* Submissions, however far they get, with the deletion of their Jobs by
\* cancel() or otherwise and the orchestrator's garbage collection.
OwnerRequests == {Request("p1", DocA, NoNode, FALSE)}

NextOwner ==
    \/ \E r \in OwnerRequests, o \in TrainOutcomes : train(r, o)
    \/ \E j \in JobIds, api \in ApiAnswers : cancel_check(j, api)
    \/ \E j \in JobIds, api \in ApiAnswers : cancel_delete(j, api)
    \/ \E j \in JobIds : JobDeleted(j)
    \/ \E j \in JobIds : PodCreate(j)
    \/ \E j \in JobIds : ContainerStart(j)
    \/ \E j \in JobIds : PodGC(j)
    \/ \E j \in JobIds : CmGC(j)

SpecOwner == Init /\ [][NextOwner]_vars

\* The garbage collector gets to every ConfigMap whose owner is gone.
SpecOwnerFair == SpecOwner /\ \A j \in JobIds : WF_vars(CmGC(j))

\* status() on any Job object the orchestrator may hand back: each counter
\* unset or a number.
Counts == {NoneCount} \cup (0..MaxCount)

JobObjects ==
    {[job_manifest(1, Request("p1", DocA, NoNode, FALSE), DataHash(DocA), "s3")
         EXCEPT !.uid = 1, !.active = a, !.succeeded = s, !.failed = f] :
        a \in Counts, s \in Counts, f \in Counts}

InitStatus ==
    /\ InitSystem
    /\ IdleUpload
    /\ IdlePatch
    /\ \E job \in JobObjects \cup {NoJob} :
           jobs = [j \in JobIds |-> IF j = 1 THEN job ELSE NoJob]

NextStatus == \E j \in JobIds, api \in ApiAnswers : status(j, api)

SpecStatus == InitStatus /\ [][NextStatus]_vars

InitUpload ==
    /\ InitSystem
    /\ NoJobs
    /\ IdlePatch
    /\ upc = "attempt"
    /\ \E args \in PauseArgs : ubase = args[1] /\ umax = args[2]
    /\ upause = ubase
    /\ ufails = 0
    /\ uslept = 0
    /\ uobj = FALSE

NextUpload == UploadOk \/ UploadFail

SpecUpload == InitUpload /\ [][NextUpload]_vars

\* The storage backend eventually accepts an upload that is tried again
\* and again.
SpecUploadFair == SpecUpload /\ SF_vars(UploadOk)

\* dict_set called on a template with a dotted path and a value.
InitPatch ==
    /\ InitSystem
    /\ NoJobs
    /\ IdleUpload
    /\ hashed = NoHashed
    /\ \E d \in Templates, keys \in DottedPaths, value \in PatchValues :
           patch = [d |-> d, keys |-> keys, value |-> value, after |-> d,
                    outcome |-> "called"]

NextPatch == dict_set_call

SpecPatch == InitPatch /\ [][NextPatch]_vars

\* train() computing the hash of two documents of one project.
InitHash ==
    /\ InitSystem
    /\ NoJobs
    /\ IdleUpload
    /\ patch = NoPatch
    /\ \E a \in HashDocs, b \in HashDocs :
           hashed = [NoHashed EXCEPT !.a = a, !.b = b, !.project_id = "p1",
                                     !.outcome = "called"]

NextHash == hash_call

SpecHash == InitHash /\ [][NextHash]_vars

----------------------------------------------------------------------------
(* Properties *)

\* The status the design prescribes for a Job object: none when absent,
\* else by the counters in the order succeeded, active, failed.
StatusTable(job) ==
    IF job = NoJob THEN "none"
    ELSE IF job.succeeded > 0 THEN "success"
    ELSE IF job.active > 0 THEN "training"
    ELSE IF job.failed > 0 THEN "failed"
    ELSE "none"

\* C1: status(job_id) is a function of the orchestrator's current Job
\* object alone: none when the Job is absent, else success if succeeded > 0,
\* else training if active > 0, else failed if failed > 0, else none; so it
\* is success for every combination of counters with succeeded > 0.
C1_StatusByCounters ==
    ret.op = "status" /\ ret.val # "raised" =>
        ret.val = StatusTable(jobs[ret.id])

\* C1 witness: status answered success for a Job that also reports active
\* and failed pods.
C1_Witness ==
    /\ ret.op = "status"
    /\ ret.val = "success"
    /\ jobs[ret.id] # NoJob
    /\ jobs[ret.id].succeeded > 0
    /\ jobs[ret.id].active > 0
    /\ jobs[ret.id].failed > 0

\* C2 (as claimed): the status of a job id only moves none -> training ->
\* {success, failed}, and training -> none by a cancel that returned True.
C2_StatusPath ==
    [][\A j \in JobIds :
          LET a == StatusOf(jobs[j])
              b == StatusOf(jobs[j])'
          IN \/ a = b
             \/ a = "none" /\ b = "training"
             \/ a = "training" /\ b \in {"success", "failed"}
             \/ /\ a = "training"
                /\ b = "none"
                /\ ret'.op = "cancel"
                /\ ret'.id = j
                /\ ret'.val = "True"]_vars

\* A step of cancel(j) that ends at its status check (it returns or raises
\* there) and a step that is its delete request.
CancelReturnsAtCheck(j) ==
    ret'.op = "cancel" /\ ret'.id = j /\ cancelPending' = cancelPending
CancelDeletes(j) == cancelPending'[j] < cancelPending[j]

\* C3: cancel(job_id) returns False and changes nothing at the orchestrator
\* when the status it reads is not training (it never goes on to the delete
\* request); its delete request on a Job that exists and is training
\* deletes the Job and returns True (unless the orchestrator's call fails,
\* which is raised); and at most one cancel of a job id returns True.
C3_Cancel ==
    [][\A j \in JobIds :
          /\ StatusOf(jobs[j]) # "training" =>
                 /\ cancelPending'[j] <= cancelPending[j]
                 /\ CancelReturnsAtCheck(j) =>
                        /\ ret'.val \in {"False", "raised"}
                        /\ jobs' = jobs /\ cms' = cms /\ store' = store
          /\ CancelDeletes(j) /\ StatusOf(jobs[j]) = "training" =>
                 /\ ret'.op = "cancel" /\ ret'.id = j
                 /\ ret'.val \in {"True", "raised"}
                 /\ ret'.val = "True" => jobs'[j] = NoJob
          /\ ret'.op = "cancel" /\ ret'.id = j /\ ret'.val = "True" =>
                 jobs[j] # NoJob /\ jobs'[j] = NoJob
          /\ cancelTrue'[j] <= 1]_vars

\* C3 witness: a cancel returned False for a job id of which an earlier
\* cancel had returned True.
C3_Witness ==
    /\ ret.op = "cancel"
    /\ ret.val = "False"
    /\ cancelTrue[ret.id] = 1
    /\ jobs[ret.id] = NoJob

\* C4: result(job_id) is absent (None) whenever the status of job_id is not
\* success; a handle or stream is returned only for a Job that exists with
\* succeeded > 0.
C4_ResultOnlyOnSuccess ==
    ret.op = "result" =>
        /\ StatusTable(jobs[ret.id]) # "success" =>
               ret.val \in {"None", "raised"} /\ ret.obj = NoObj
        /\ ret.val \in {"Path", "StreamingBody"} =>
               jobs[ret.id] # NoJob /\ jobs[ret.id].succeeded > 0

\* C4 witness: result answered None for a job that is training or failed.
C4_Witness ==
    /\ ret.op = "result"
    /\ ret.val = "None"
    /\ StatusTable(jobs[ret.id]) \in {"training", "failed"}

\* The jobs submitted with the project and the training-data hash of job j:
\* those that share its Model Directory.
Sharers(j) ==
    {k \in JobIds :
        /\ req[k] # NoRequest
        /\ req[k].project_id = req[j].project_id
        /\ DataHash(req[k].training_data) = DataHash(req[j].training_data)}

ResultOnSuccess == ret.op = "result" /\ StatusTable(jobs[ret.id]) = "success"

\* C5 (as claimed): whenever status(job_id) is success, result(job_id)
\* yields the artifact this job's worker uploaded, whole, from the Model
\* Directory submit passed to that worker.
C5_OwnBytes ==
    ResultOnSuccess =>
        /\ ret.val \in {"Path", "StreamingBody"}
        /\ ret.dir = getenv(worker[ret.id].env, "S3_MODEL_DIR")
        /\ ret.obj = Obj(ret.id, TRUE)

\* C5 (amended): whenever status(job_id) is success, result(job_id) reads
\* model.tar.gz in the Model Directory submit passed to this job's worker,
\* and what it holds is the last upload to that path: this job's worker's,
\* whole, or that of the worker of another job submitted with the same
\* project and training-data hash, which under the local-volume backend
\* may be an incomplete copy.
C5_SharedBytes ==
    ResultOnSuccess =>
        /\ ret.val \in {"Path", "StreamingBody"}
        /\ ret.dir = getenv(worker[ret.id].env, "S3_MODEL_DIR")
        /\ ret.dir = s3_model_dir(req[ret.id].project_id,
                                  DataHash(req[ret.id].training_data))
        /\ ret.obj = store[FilePath(ret.dir, "model.tar.gz")]
        /\ ret.obj.by \in Sharers(ret.id)
        /\ ret.obj.by = ret.id => ret.obj.full
        /\ ret.obj.full \/ backend = "local"

\* C5 witness: result of a succeeded job read the artifact a later job with
\* the same Model Directory uploaded.
C5_Witness ==
    /\ ResultOnSuccess
    /\ ret.val = "StreamingBody"
    /\ ret.obj.by # ret.id
    /\ ret.obj.full

C7_ConflictSwallowed ==
    ret.op = "train" =>
        /\ ret.jobAns = "exists" \/ ret.cmAns = "exists" => ret.val # "raised"
        /\ ret.jobAns = "error" \/ ret.cmAns = "error" => ret.val = "raised"

\* C8: upload_to_s3 never gives up and never raises: after any number of
\* failed attempts it is at the head of its loop again, it returns only
\* with the object uploaded, and when the storage backend eventually
\* accepts an upload it returns.
C8_UploadRetries ==
    /\ [](upc \in {"attempt", "returned"})
    /\ [](upc = "returned" => uobj)
    /\ [](upc = "attempt" => ~uobj)
    /\ <>(upc = "returned" /\ uobj)

\* C8 witness: the upload returned after as many failures as are counted.
C8_Witness == upc = "returned" /\ uobj /\ ufails = MaxFails

RECURSIVE Pow2(_)
Pow2(n) == IF n = 0 THEN 1 ELSE 2 * Pow2(n - 1)

Min(a, b) == IF a <= b THEN a ELSE b

\* C9 (as claimed): the sleep after the k-th consecutive failure is
\* min(base * 2^(k-1), cap), for every base <= cap.
C9_PauseFormula ==
    ufails >= 1 /\ ufails < MaxFails =>
        uslept = Min(ubase * Pow2(ufails - 1), umax)

\* C10 (as claimed): a worker whose training exited 0 and whose model
\* artifact is uploaded never exits with a failure: the cache archive and
\* the cache upload are best-effort.
C10_CacheStoreBestEffort ==
    \A j \in JobIds :
        worker[j].modelUp /\ worker[j].pc \in {"exited", "counted"} =>
            worker[j].exit = 0

\* The store paths of the worker of job j.
ModelPath(j) == FilePath(getenv(worker[j].env, "S3_MODEL_DIR"), "model.tar.gz")
TrainDataPath(j) ==
    FilePath(getenv(worker[j].env, "S3_MODEL_DIR"), "train_data.yml")

\* C11: a worker is at the cache restore only when a cache path is
\* configured (without one the download of the training data is followed by
\* the training command); whether the restore succeeds or fails, the worker
\* goes on to the training command and never exits there, and the restore
\* leaves nothing behind but the cache directory: exit code, uploads and
\* environment are as before.
C11_CacheRestoreIgnored ==
    [][\A j \in JobIds :
          /\ worker'[j].pc = "cache_restore" =>
                 getenv(worker'[j].env, "S3_CACHE_PATH") # NoPath
          /\ worker[j].pc = "download" /\ worker'[j].pc = "train" =>
                 getenv(worker[j].env, "S3_CACHE_PATH") = NoPath
          /\ worker[j].pc = "cache_restore" /\ worker'[j] # worker[j] =>
                 \/ worker'[j].pc = "gone"
                 \/ /\ worker'[j].pc = "train"
                    /\ worker'[j] = [worker[j] EXCEPT
                                         !.pc = "train",
                                         !.cacheDir = worker'[j].cacheDir]
                    /\ store' = store]_vars

\* C11 witness: a worker with a cache path whose cache restore failed (the
\* cache path holds nothing) ran the training command, uploaded the model
\* and exited 0.
C11_Witness ==
    \E j \in JobIds :
        /\ getenv(worker[j].env, "S3_CACHE_PATH") # NoPath
        /\ store[getenv(worker[j].env, "S3_CACHE_PATH")] = NoObj
        /\ worker[j].pc = "exited"
        /\ worker[j].rc = 0
        /\ worker[j].exit = 0
        /\ worker[j].modelUp

\* The positions of main() after the training command returned 0.
AfterTraining == {"upload_model", "copy_model", "archive", "upload_cache",
                  "copy_cache"}

\* C12: a worker whose training command returned c # 0 exits with code c
\* and uploads neither the model artifact nor the cache archive; the model
\* artifact and the cache archive are written only by a worker whose
\* training command returned 0; and the training command starts only after
\* the download of the training data (directly or through the cache
\* restore), which found the training data at its path.
C12_ExitCodePropagated ==
    [][\A j \in JobIds :
          /\ worker'[j].rc \notin {-1, 0} =>
                 /\ worker'[j].pc \in {"exited", "counted", "gone"}
                 /\ worker'[j].exit = worker'[j].rc
                 /\ ~worker'[j].modelUp
          /\ worker'[j].pc \in AfterTraining \/ worker'[j].modelUp =>
                 worker'[j].rc = 0
          /\ \A p \in Paths :
                 /\ p.file \in {"model.tar.gz", "cache.tar.gz"}
                 /\ store'[p] # store[p]
                 /\ store'[p].by = j
                 => worker[j].rc = 0 /\ worker[j].pc \in AfterTraining
          /\ worker'[j].pc = "train" /\ worker[j].pc # "train" =>
                 worker[j].pc \in {"download", "cache_restore"}
          /\ worker'[j].pc = "cache_restore" /\ worker[j].pc # "cache_restore"
                 => worker[j].pc = "download"
          /\ worker[j].pc = "download"
                 /\ worker'[j].pc \in {"cache_restore", "train"}
                 => store[TrainDataPath(j)] # NoObj
          /\ worker[j].rc = -1 /\ worker'[j].rc # -1 =>
                 worker[j].pc = "train"]_vars

\* C12 witness: a worker whose training command returned 2 has exited with
\* code 2 and its model path holds nothing.
C12_Witness ==
    \E j \in JobIds :
        /\ worker[j].pc = "exited"
        /\ worker[j].rc = 2
        /\ worker[j].exit = 2
        /\ store[ModelPath(j)] = NoObj

\* The positions of main() inside storage.upload_file.
Uploading == {"upload_model", "copy_model", "upload_cache", "copy_cache"}

\* C13 (as claimed): under either storage backend a failed upload attempt
\* is retried: a worker inside upload_file leaves it only with the upload
\* done, never by exiting with a failure.
C13_UploadsRetriedEitherBackend ==
    [][\A j \in JobIds :
          worker[j].pc \in Uploading /\ worker'[j].pc = "exited" =>
              worker'[j].exit = 0]_vars

\* C14 (as claimed): a reader never sees a partially written object: what
\* result() hands to the caller is a whole object.
C14_AtomicUploads ==
    ret.op = "result" /\ ret.val \in {"Path", "StreamingBody"} =>
        ret.obj # NoObj /\ ret.obj.full

\* C15 (as claimed): status, cancel, logs and result turn a 404 (Job, pod,
\* log or artifact not found) and the 400 of a container that has not
\* started into their absent outcome and never raise it, and raise every
\* other error.
C15_NotFoundIsAbsent ==
    ret.op \in {"status", "cancel", "logs", "result"} =>
        /\ ret.api \in {"404", "400"} => ret.val \in {"none", "False", "None"}
        /\ ret.api = "error" => ret.val = "raised"

\* What a document holds, field by field: for every mapping, sequence and
\* scalar in it the path that addresses it (mapping keys by name, sequence
\* entries by the numeral of their index from 0) and its kind, with the
\* scalar's text and the sequence's length.
Field(at, t, v, n) == [at |-> at, t |-> t, v |-> v, n |-> n]

RECURSIVE Fields(_, _)
Fields(x, at) ==
    CASE x.t = "str" -> {Field(at, "str", x.v, x.len)}
      [] x.t = "map" ->
             {Field(at, "map", "", 0)}
                 \cup UNION {Fields(x.kv[k], Append(at, k)) : k \in DOMAIN x.kv}
      [] OTHER ->
             {Field(at, "seq", "", Len(x.items))}
                 \cup UNION {Fields(x.items[i], Append(at, ToString(i - 1))) :
                                i \in 1..Len(x.items)}

IsPrefix(p, q) == Len(p) <= Len(q) /\ SubSeq(q, 1, Len(p)) = p

\* The fields outside the one a path addresses.
Outside(x, keys) == {f \in Fields(x, <<>>) : ~IsPrefix(keys, f.at)}

\* How a dotted path stands to a document by the design's rules (a name
\* descends through a mapping key, a numeral through a sequence index from
\* 0): it resolves; a numeral indexes past the end of a sequence; a segment
\* before the last resolves to a scalar; or something else (a name on a
\* sequence, a numeral on a mapping, a key that is absent before the last
\* segment, a negative number).
IsIndex(k) == k \in {"0", "1"}

RECURSIVE Walk(_, _)
Walk(x, keys) ==
    LET k == keys[1]
    IN CASE x.t = "str" -> "scalar"
         [] x.t = "seq" ->
                IF ~IsIndex(k) THEN "other"
                ELSE IF IntOf[k] >= Len(x.items) THEN "past_end"
                ELSE IF Len(keys) = 1 THEN "resolves"
                ELSE Walk(x.items[IntOf[k] + 1], Tail(keys))
         [] OTHER ->
                IF IsInt(k) THEN "other"
                ELSE IF Len(keys) = 1 THEN "resolves"
                ELSE IF k \notin DOMAIN x.kv THEN "other"
                ELSE Walk(x.kv[k], Tail(keys))

PatchDone == patch.outcome \notin {"idle", "called"}

\* C16: dict_set with a path that resolves returns, the document then
\* holds the value at the path (a prior value overwritten, an absent last
\* key created), and every field outside the path is as before: the other
\* fields of the same container entry, and the length of every sequence.
C16_PatchSetsExactlyOneField ==
    PatchDone /\ Walk(patch.d, patch.keys) = "resolves" =>
        /\ patch.outcome = "returned"
        /\ Fields(patch.value, patch.keys) \subseteq Fields(patch.after, <<>>)
        /\ Outside(patch.after, patch.keys) = Outside(patch.d, patch.keys)

\* C16 witness: spec.containers.0.image was patched in a template whose
\* first container entry has an image and a name, and that has a second
\* entry.
C16_Witness ==
    /\ patch.outcome = "returned"
    /\ patch.keys = <<"spec", "containers", "0", "image">>
    /\ Len(patch.d.kv["spec"].kv["containers"].items) = 2
    /\ DOMAIN patch.d.kv["spec"].kv["containers"].items[1].kv
           = {"image", "name"}
    /\ patch.after # patch.d

\* C17: dict_set never creates a sequence index: with a numeral that
\* indexes past the end of a sequence, or a segment before the last that
\* resolves to a scalar, it raises; when it raises the document is as
\* before; and no sequence of the document has another length afterwards.
C17_NoSequenceIndexCreated ==
    PatchDone =>
        /\ Walk(patch.d, patch.keys) \in {"past_end", "scalar"} =>
               patch.outcome # "returned"
        /\ patch.outcome # "returned" => patch.after = patch.d
        /\ \A f \in Fields(patch.d, <<>>), g \in Fields(patch.after, <<>>) :
               f.t = "seq" /\ g.t = "seq" /\ g.at = f.at => g.n = f.n

\* C17 witness: a patch of spec.containers.1 on a template with one
\* container entry raised IndexError.
C17_Witness ==
    /\ patch.outcome = "IndexError"
    /\ patch.keys = <<"spec", "containers", "1">>
    /\ Len(patch.d.kv["spec"].kv["containers"].items) = 1

\* C18 (as claimed): two documents that parse to the same value, however
\* they are formatted and whatever the order of their keys, get the same
\* hash and the same Model Directory; two documents whose canonical texts
\* differ get different hashes.
C18_HashOfParsedContent ==
    hashed.outcome = "returned" =>
        /\ safe_load(hashed.a).kv = safe_load(hashed.b).kv =>
               hashed.ha = hashed.hb /\ hashed.dira = hashed.dirb
        /\ Canonical(hashed.a) # Canonical(hashed.b) => hashed.ha # hashed.hb

\* C19: the Job object of a submission has the cache-path variable exactly
\* when use_cache is true, and then its value is
\* <cache-prefix>/<project_id>/cache.tar.gz; it has the node-pinning field
\* exactly when a node was given, and then it is that node; it always has
\* the model-directory variable, which is the Model Directory of the
\* project and the hash of the training data.
C19_JobEnvAndNode ==
    \A j \in JobIds :
        jobs[j] # NoJob =>
            /\ "S3_CACHE_PATH" \in DOMAIN jobs[j].env <=> req[j].use_cache
            /\ req[j].use_cache =>
                   jobs[j].env["S3_CACHE_PATH"]
                       = [prefix |-> S3_CACHE_DIR,
                          project |-> req[j].project_id,
                          hash |-> NoHash, file |-> "cache.tar.gz"]
            /\ "nodeName" \in DOMAIN jobs[j].spec <=> req[j].node # NoNode
            /\ req[j].node # NoNode => jobs[j].spec["nodeName"] = req[j].node
            /\ "S3_MODEL_DIR" \in DOMAIN jobs[j].env
            /\ jobs[j].env["S3_MODEL_DIR"]
                   = [prefix |-> S3_DIR, project |-> jobs[j].labels.project_id,
                      hash |-> jobs[j].labels.data_hash]
            /\ jobs[j].labels.project_id = req[j].project_id
            /\ jobs[j].labels.data_hash = DataHash(req[j].training_data)

\* C19 witness: a submission of project p1 with use_cache and without a
\* node returned: the Job has the cache path of p1 and no node-pinning
\* field.
C19_Witness ==
    /\ ret.op = "train" /\ ret.val = "ok"
    /\ req[ret.id].use_cache
    /\ req[ret.id].project_id = "p1"
    /\ req[ret.id].node = NoNode
    /\ jobs[ret.id].env["S3_CACHE_PATH"].project = "p1"
    /\ jobs[ret.id].env["S3_CACHE_PATH"].file = "cache.tar.gz"
    /\ "nodeName" \notin DOMAIN jobs[ret.id].spec

\* C20 (as claimed): cancel deletes the Job only if the Job is training at
\* the moment of the delete: a Job that completed (success or failed)
\* between cancel's status read and its delete request stays in place and
\* that cancel returns False, as it does when the Job has disappeared.
C20_CancelOnlyWhileTraining ==
    [][\A j \in JobIds :
          /\ jobs[j] # NoJob /\ jobs'[j] = NoJob =>
                 StatusOf(jobs[j]) = "training"
          /\ CancelDeletes(j) /\ StatusOf(jobs[j]) # "training"
                 /\ ret'.val # "raised"
                 => ret'.val = "False" /\ jobs'[j] = jobs[j]]_vars

\* C21: a ConfigMap <prefix>-cm-<id> comes into being only with the Job
\* <prefix>-job-<id> of the same train() in place and created before it
\* (the smaller uid), and its owner reference has that Job's name and the
\* uid the orchestrator gave it; an existing ConfigMap keeps that owner
\* reference, so none exists whose Job was never created; no call of the
\* control process removes a ConfigMap; and once the Job is deleted, by
\* cancel or otherwise, the orchestrator eventually removes the ConfigMap.
C21_ConfigOwnedByJob ==
    /\ [][\A j \in JobIds :
             /\ cms[j] = NoCm /\ cms'[j] # NoCm =>
                    /\ ret'.op = "train" /\ ret'.id = j
                    /\ jobs[j] = NoJob /\ jobs'[j] # NoJob
                    /\ jobs'[j].name = <<KUBE_DEFAULT_NAME_PREFIX, "job", j>>
                    /\ cms'[j].name = <<KUBE_DEFAULT_NAME_PREFIX, "cm", j>>
                    /\ cms'[j].owner = [name |-> jobs'[j].name,
                                        uid |-> jobs'[j].uid]
                    /\ jobs'[j].uid >= 1
                    /\ jobs'[j].uid < cms'[j].uid
             /\ cms[j] # NoCm /\ cms'[j] # NoCm => cms'[j] = cms[j]
             /\ cms[j] # NoCm /\ cms'[j] = NoCm =>
                    jobs[j] = NoJob /\ ret' = NoRet]_vars
    /\ [](\A j \in JobIds :
             cms[j] # NoCm /\ jobs[j] # NoJob =>
                 cms[j].owner = [name |-> jobs[j].name, uid |-> jobs[j].uid])
    /\ \A j \in JobIds :
           (cms[j] # NoCm /\ jobs[j] = NoJob) ~> (cms[j] = NoCm)

\* C21 witness: the Job of a submission that returned was deleted by a
\* cancel that returned True, and its ConfigMap is gone.
C21_Witness ==
    \E j \in JobIds :
        /\ \E i \in 1..Len(returned) : returned[i] = j
        /\ cancelTrue[j] = 1
        /\ jobs[j] = NoJob
        /\ cms[j] = NoCm
=============================================================================
